---------------------------- MODULE Spec2Model ----------------------------
(***************************************************************************)
(* A model of the command-server repository.                               *)
(*                                                                         *)
(*   commandserver.py  CommandServerApp, ProcessFactory, Process, Args and *)
(*                     their null substitutes (NullSubprocess, NullPopen,  *)
(*                     NullSys), and the __main__ entry point.             *)
(*   zero.py           ZeroApp, TestRunner, Terminal, EventCollector and   *)
(*                     their null substitutes.                             *)
(*                                                                         *)
(* Three specifications share the variables:                               *)
(*   Spec      one CommandServerApp with its Args and ProcessFactory, as   *)
(*             the doctests drive them (run, spawn, get_last_spawned).     *)
(*   SpecSys   command-server started from a shell in the directories of a *)
(*             small tree: the __main__ entry point, one OS process each.  *)
(*   SpecZero  ZeroApp.run_in_test_mode and the TestRunner doctest.        *)
(*                                                                         *)
(* Python lists are modelled as sequences (values).  Objects that have an  *)
(* identity (Process) live in a heap and are referred to by their index.   *)
(***************************************************************************)
EXTENDS Naturals, Sequences, FiniteSets

VARIABLES
    \* ---- commandserver.py, one application object (Spec) ----
    argv,           \* sys.argv of the sys object wrapped by Args
    subprocess,     \* "null" (NullSubprocess) or "real" (the subprocess module)
    heap,           \* the Process objects created so far; a reference is an index
    last_spwaned,   \* ProcessFactory.last_spwaned: None or a reference
    children,       \* OS children started by the real Popen: pid -> status
    returned,       \* what the latest factory.spawn that returned has returned
    call,           \* the latest call made on the objects and how it ended
    \* ---- commandserver.py, the __main__ entry point (SpecSys) ----
    procs,          \* the command-server OS processes started so far
    \* ---- zero.py (SpecZero) ----
    driver,         \* which doctest drives the objects
    zero_argv,      \* sys.argv of the NullSys wrapped by zero.Args
    run_was_successful, \* NullUnittest.run_was_successful
    todo,           \* the calls on the test runner that are still to be made
    suite,          \* number of tests added to TestRunner.suite
    events,         \* the EventCollector: a list of (event, message)
    zero_pc,        \* where the driver is
    result          \* what runner.run() returned to the TestRunner doctest

vars == <<argv, subprocess, heap, last_spwaned, children, returned, call, procs,
          driver, zero_argv, run_was_successful, todo, suite, events,
          zero_pc, result>>

appVars == <<argv, subprocess, heap, last_spwaned, children, returned, call>>
sysVars == <<procs>>
zeroVars == <<driver, zero_argv, run_was_successful, todo, suite, events,
              zero_pc, result>>

----------------------------------------------------------------------------
(* Bounds of the model.                                                    *)

\* Longest argument list given on a command line.
MaxArgs == 2
\* Most Process objects one ProcessFactory creates.
MaxSpawns == 3

\* Most command-server processes started from the shell.
MaxProcs == 3

\* Longest argument list given to ZeroApp.
MaxZeroArgs == 3

\* Words an argument list is made of.
Words == {"echo", "hello"}

RECURSIVE SeqsUpTo(_, _)
SeqsUpTo(S, n) ==
    IF n = 0 THEN {<<>>}
    ELSE LET shorter == SeqsUpTo(S, n - 1)
         IN  shorter \cup {Append(s, w) : s \in {t \in shorter : Len(t) = n - 1}, w \in S}

ArgLists == SeqsUpTo(Words, MaxArgs)

\* Commands passed to ProcessFactory.spawn directly.
Commands == {<<>>, <<"hello">>, <<"echo", "hello">>}

----------------------------------------------------------------------------
(* commandserver.py                                                        *)

\* Python's None, as a reference and as a pid (references and pids are >= 1).
None == 0

\* NullSys(argv=[None]+args) and the interpreter's sys.argv = [program]+args.
NullSysArgv(args) == <<"None">> \o args
RealSysArgv(args) == <<"commandserver.py">> \o args

\* An Args.get that would forget to drop the program name.
ArgsGetWhole(a) == a

\* Args.get: sys.argv[1:] (the empty list when argv has no second element).
ArgsGet(a) == SubSeq(a, 2, Len(a))

\* A pid no child has had yet.
FreshPid(ch) == Len(ch) + 1

\* subprocess.Popen(command): NullSubprocess.Popen returns a NullPopen, whose
\* pid is None, and starts nothing.  The real Popen raises for an empty
\* command, and for one the OS cannot launch (no such file, no permission,
\* no resources); otherwise it starts a child and returns its pid.  Which of
\* the two happens for a non-empty command is the environment's choice.
PopenOutcomes(sub, command) ==
    IF sub = "null" THEN {"NullPopen"}
    ELSE IF command = <<>> THEN {"raise"}
    ELSE {"Popen", "raise"}

\* Process(command, popen).
Process(command, popen) == [command |-> command, popen |-> popen]

\* Process.get_pid.
get_pid(process) == process.popen.pid

\* A spawn that would reuse the stored Process instead of creating one.
SpawnInPlace(h, last, ch, command, outcome) ==
    IF outcome = "raise"
    THEN [heap |-> h, last |-> last, children |-> ch, raised |-> TRUE, ret |-> None]
    ELSE LET pid == IF outcome = "Popen" THEN FreshPid(ch) ELSE None
             ch2 == IF outcome = "Popen" THEN Append(ch, "running") ELSE ch
         IN  IF last = None
             THEN [heap |-> Append(h, Process(command, [pid |-> pid])),
                   last |-> Len(h) + 1, children |-> ch2, raised |-> FALSE,
                   ret |-> Len(h) + 1]
             ELSE [heap |-> [h EXCEPT ![last] = Process(command, [pid |-> pid])],
                   last |-> last, children |-> ch2, raised |-> FALSE, ret |-> last]

\* ProcessFactory.spawn(command) with Popen ending in `outcome`: the new
\* values of (heap, last_spwaned, children) and what the call returns.  The
\* argument Popen(command) is evaluated first: when it raises, nothing is
\* constructed or assigned.
spawn(h, last, ch, command, outcome) ==
    IF outcome = "raise"
    THEN [heap |-> h, last |-> last, children |-> ch, raised |-> TRUE, ret |-> None]
    ELSE LET pid == IF outcome = "Popen" THEN FreshPid(ch) ELSE None
             ch2 == IF outcome = "Popen" THEN Append(ch, "running") ELSE ch
             h2  == Append(h, Process(command, [pid |-> pid]))
         IN  [heap |-> h2, last |-> Len(h2), children |-> ch2,
              raised |-> FALSE, ret |-> Len(h2)]

\* ProcessFactory.get_last_spawned.
get_last_spawned(last) == last

\* The state after construction: CommandServerApp(arguments, process_factory)
\* with Args.create_null(args) and ProcessFactory.create_null(), or with the
\* real sys and subprocess modules.
Init ==
    /\ subprocess \in {"null", "real"}
    /\ \E args \in ArgLists :
          argv = IF subprocess = "null" THEN NullSysArgv(args) ELSE RealSysArgv(args)
    /\ heap = <<>>
    /\ last_spwaned = None
    /\ children = <<>>
    /\ returned = None
    /\ call = [op |-> "init", arg |-> <<>>, raised |-> FALSE, ret |-> None]
    /\ procs = <<>>
    /\ driver = "none"
    /\ zero_argv = <<>>
    /\ run_was_successful = TRUE
    /\ todo = <<>>
    /\ suite = 0
    /\ events = <<>>
    /\ zero_pc = "idle"
    /\ result = FALSE

\* CommandServerApp.run: self.process_factory.spawn(self.arguments.get()).
CommandServerAppRun ==
    /\ Len(heap) < MaxSpawns
    /\ \E outcome \in PopenOutcomes(subprocess, ArgsGet(argv)) :
          LET r == spawn(heap, last_spwaned, children, ArgsGet(argv), outcome)
          IN  /\ heap' = r.heap
              /\ last_spwaned' = r.last
              /\ children' = r.children
              /\ returned' = IF r.raised THEN returned ELSE r.ret
              /\ call' = [op |-> "run", arg |-> <<>>, raised |-> r.raised,
                          ret |-> None]
    /\ UNCHANGED <<argv, subprocess>>
    /\ UNCHANGED <<sysVars, zeroVars>>

\* factory.spawn(command), called directly as in the ProcessFactory doctest.
Spawn ==
    /\ Len(heap) < MaxSpawns
    /\ \E command \in Commands :
       \E outcome \in PopenOutcomes(subprocess, command) :
          LET r == spawn(heap, last_spwaned, children, command, outcome)
          IN  /\ heap' = r.heap
              /\ last_spwaned' = r.last
              /\ children' = r.children
              /\ returned' = IF r.raised THEN returned ELSE r.ret
              /\ call' = [op |-> "spawn", arg |-> command, raised |-> r.raised,
                          ret |-> r.ret]
    /\ UNCHANGED <<argv, subprocess>>
    /\ UNCHANGED <<sysVars, zeroVars>>

\* factory.get_last_spawned().
GetLastSpawned ==
    /\ call' = [op |-> "get_last_spawned", arg |-> <<>>, raised |-> FALSE,
                ret |-> get_last_spawned(last_spwaned)]
    /\ UNCHANGED <<argv, subprocess, heap, last_spwaned, children, returned>>
    /\ UNCHANGED <<sysVars, zeroVars>>

\* A child the real Popen started ends by itself (nothing in the code ends it).
ChildExits ==
    /\ \E pid \in 1..Len(children) :
          /\ children[pid] = "running"
          /\ children' = [children EXCEPT ![pid] = "exited"]
    /\ UNCHANGED <<argv, subprocess, heap, last_spwaned, returned, call>>
    /\ UNCHANGED <<sysVars, zeroVars>>

Next == CommandServerAppRun \/ Spawn \/ GetLastSpawned \/ ChildExits

Spec == Init /\ [][Next]_vars

----------------------------------------------------------------------------
(* commandserver.py started from a shell: the __main__ entry point.        *)

\* The directories of the module docstring: /, /foo, /foo/bar and /baz, each
\* the sequence of its components.
Dirs == {<<>>, <<"foo">>, <<"foo", "bar">>, <<"baz">>}

\* The command lines of the module docstring: `command-server echo hello`
\* (Step 1) and `command-server --invoke` (Steps 2 and 3).
CommandLines == {<<"echo", "hello">>, <<"--invoke">>}

\* A command-server process right after the shell has started it in `dir`:
\* the interpreter is about to execute CommandServerApp().run(), with the
\* real sys and subprocess modules (the defaults of the constructors).
\* stdout holds the lines the process itself has printed; traceback tells
\* whether it ended by an uncaught exception; exit is its exit status once
\* pc = "exited".
NewProc(dir, args) ==
    [cwd |-> dir, argv |-> RealSysArgv(args), pc |-> "main",
     heap |-> <<>>, last_spwaned |-> None,
     stdout |-> <<>>, traceback |-> FALSE, exit |-> 0]

InitSys ==
    /\ procs = <<>>
    /\ children = <<>>
    /\ subprocess = "real"
    /\ argv = <<>>
    /\ heap = <<>>
    /\ last_spwaned = None
    /\ returned = None
    /\ call = [op |-> "init", arg |-> <<>>, raised |-> FALSE, ret |-> None]
    /\ driver = "none"
    /\ zero_argv = <<>>
    /\ run_was_successful = TRUE
    /\ todo = <<>>
    /\ suite = 0
    /\ events = <<>>
    /\ zero_pc = "idle"
    /\ result = FALSE

\* The shell starts `command-server <args>` in a directory.
Start ==
    /\ Len(procs) < MaxProcs
    /\ \E dir \in Dirs, args \in CommandLines :
          procs' = Append(procs, NewProc(dir, args))
    /\ UNCHANGED <<argv, subprocess, heap, last_spwaned, children, returned, call>>
    /\ UNCHANGED zeroVars

\* if __name__ == "__main__": CommandServerApp().run().  run() spawns
\* sys.argv[1:], whatever it holds; nothing is printed, no directory is
\* looked at and no other process is contacted.  An exception of Popen is
\* caught nowhere: the interpreter prints the traceback and exits with 1.
Main ==
    /\ \E i \in 1..Len(procs) :
          /\ procs[i].pc = "main"
          /\ \E outcome \in PopenOutcomes("real", ArgsGet(procs[i].argv)) :
                LET r == spawn(procs[i].heap, procs[i].last_spwaned, children,
                               ArgsGet(procs[i].argv), outcome)
                IN  /\ children' = r.children
                    /\ procs' = [procs EXCEPT
                          ![i].heap = r.heap,
                          ![i].last_spwaned = r.last,
                          ![i].pc = IF r.raised THEN "exited" ELSE "ran",
                          ![i].traceback = r.raised,
                          ![i].exit = IF r.raised THEN 1 ELSE 0]
    /\ UNCHANGED <<argv, subprocess, heap, last_spwaned, returned, call>>
    /\ UNCHANGED zeroVars

\* run() has returned and the module ends: the interpreter exits with 0.  The
\* child it started is neither waited for nor ended.
Exit ==
    /\ \E i \in 1..Len(procs) :
          /\ procs[i].pc = "ran"
          /\ procs' = [procs EXCEPT ![i].pc = "exited", ![i].exit = 0]
    /\ UNCHANGED appVars
    /\ UNCHANGED zeroVars

NextSys == Start \/ Main \/ Exit \/ ChildExits

SpecSys == InitSys /\ [][NextSys]_vars

----------------------------------------------------------------------------
(* zero.py                                                                 *)

\* Words an argument list of ZeroApp is made of.
ZeroWords == {"build", "test", "--help"}

ZeroArgLists == SeqsUpTo(ZeroWords, MaxZeroArgs)

\* The modules __import__ finds: the repository's zero.py and
\* commandserver.py.  Any other name raises ModuleNotFoundError.  The null
\* versions substitute unittest and doctest, not __import__.
Modules == {"zero", "commandserver"}

\* Names the TestRunner doctest passes to add_doctest_module.
ModuleNames == {"zero", "commandserver", "command-server"}

\* The usage line of ZeroApp.run.
Usage == "I am a tool to support zero friction development."

\* Observable.notify with the one EventCollector that run_in_test_mode and
\* the TestRunner doctest register: EventCollector.notify appends
\* (event, message).
notify(ev, event, message) == Append(ev, <<event, message>>)

\* A test that would only look at the first argument.
IsBuildPrefix(args) == Len(args) >= 1 /\ args[1] = "build"

\* The test of ZeroApp.run: self.args.get() == ["build"].
IsBuild(args) == args = <<"build">>

\* The calls ZeroApp.run makes on the test runner when asked to build.
BuildCalls ==
    << [op |-> "add_doctest_module", name |-> "zero"],
       [op |-> "add_doctest_module", name |-> "command-server"],
       [op |-> "run", name |-> ""] >>

\* The state at the start of ZeroApp.run_in_test_mode(args, test_successful)
\* (the collector registered with a null Terminal and a null TestRunner,
\* app.run() about to be called), or of the TestRunner doctest (the collector
\* registered with a null TestRunner, add_doctest_module and run to be
\* called).
InitZero ==
    /\ driver \in {"ZeroApp", "TestRunner"}
    /\ run_was_successful \in BOOLEAN
    /\ IF driver = "ZeroApp"
       THEN /\ \E args \in ZeroArgLists : zero_argv = NullSysArgv(args)
            /\ todo = <<>>
            /\ zero_pc = "run"
       ELSE /\ zero_argv = <<>>
            /\ \E name \in ModuleNames :
                  todo = << [op |-> "add_doctest_module", name |-> name],
                            [op |-> "run", name |-> ""] >>
            /\ zero_pc = "calls"
    /\ suite = 0
    /\ events = <<>>
    /\ result = FALSE
    /\ procs = <<>>
    /\ children = <<>>
    /\ subprocess = "null"
    /\ argv = <<>>
    /\ heap = <<>>
    /\ last_spwaned = None
    /\ returned = None
    /\ call = [op |-> "init", arg |-> <<>>, raised |-> FALSE, ret |-> None]

\* ZeroApp.run up to its first call on the test runner, or, when not asked
\* to build, to its end: Terminal.print_line notifies LINE and writes to the
\* null stream, sys.exit(1) raises SystemExit, and run_in_test_mode catches
\* it and notifies EXIT with its code.
ZeroAppRun ==
    /\ driver = "ZeroApp"
    /\ zero_pc = "run"
    /\ IF IsBuild(ArgsGet(zero_argv))
       THEN /\ todo' = BuildCalls
            /\ zero_pc' = "calls"
            /\ events' = events
       ELSE /\ todo' = <<>>
            /\ zero_pc' = "exit"
            /\ events' = notify(notify(events, "LINE", Usage), "EXIT", 1)
    /\ UNCHANGED <<driver, zero_argv, run_was_successful, suite, result>>
    /\ UNCHANGED <<appVars, sysVars>>

\* TestRunner.add_doctest_module(name): notify DOCTEST_MODULE, then
\* self.suite.addTest(self.doctest.DocTestSuite(__import__(name))).  An
\* exception of __import__ is no SystemExit: nothing catches it, it ends the
\* driver and the calls that were to follow are not made.
AddDoctestModule ==
    /\ zero_pc = "calls"
    /\ todo # <<>>
    /\ Head(todo).op = "add_doctest_module"
    /\ events' = notify(events, "DOCTEST_MODULE", Head(todo).name)
    /\ IF Head(todo).name \in Modules
       THEN /\ suite' = suite + 1
            /\ todo' = Tail(todo)
            /\ zero_pc' = "calls"
       ELSE /\ suite' = suite
            /\ todo' = <<>>
            /\ zero_pc' = "raised"
    /\ UNCHANGED <<driver, zero_argv, run_was_successful, result>>
    /\ UNCHANGED <<appVars, sysVars>>

\* TestRunner.run: notify TEST_RUN, then the null TextTestRunner's result,
\* wasSuccessful() = run_was_successful.  ZeroApp.run calls sys.exit(1) when
\* it is False (run_in_test_mode notifies EXIT) and returns otherwise; the
\* TestRunner doctest keeps the value.
TestRunnerRun ==
    /\ zero_pc = "calls"
    /\ todo # <<>>
    /\ Head(todo).op = "run"
    /\ todo' = Tail(todo)
    /\ IF driver = "ZeroApp"
       THEN /\ result' = result
            /\ IF run_was_successful
               THEN /\ events' = notify(events, "TEST_RUN", "None")
                    /\ zero_pc' = "returned"
               ELSE /\ events' = notify(notify(events, "TEST_RUN", "None"), "EXIT", 1)
                    /\ zero_pc' = "exit"
       ELSE /\ result' = run_was_successful
            /\ events' = notify(events, "TEST_RUN", "None")
            /\ zero_pc' = "returned"
    /\ UNCHANGED <<driver, zero_argv, run_was_successful, suite>>
    /\ UNCHANGED <<appVars, sysVars>>

NextZero == ZeroAppRun \/ AddDoctestModule \/ TestRunnerRun

SpecZero == InitZero /\ [][NextZero]_vars

----------------------------------------------------------------------------
(* Claims about one application object (Spec).                             *)

\* The children that are running.
LiveChildren == {pid \in 1..Len(children) : children[pid] = "running"}

\* C1: a call of CommandServerApp.run that returns has spawned exactly one
\* process through the factory: one new Process (and, with the real
\* subprocess module, one new child), whose command is sys.argv without its
\* first element, in the same order; it is then the last spawned process and
\* no earlier Process has changed.
C1_RunSpawnsTheArguments ==
    [][(CommandServerAppRun /\ ~call'.raised) =>
         /\ Len(heap') = Len(heap) + 1
         /\ \A i \in 1..Len(heap) : heap'[i] = heap[i]
         /\ heap'[Len(heap')].command = SubSeq(argv, 2, Len(argv))
         /\ get_last_spawned(last_spwaned') = Len(heap')
         /\ IF subprocess = "real"
            THEN /\ Len(children') = Len(children) + 1
                 /\ get_pid(heap'[Len(heap')]) = Len(children')
                 /\ children'[Len(children')] = "running"
            ELSE /\ children' = children
                 /\ get_pid(heap'[Len(heap')]) = None]_vars

\* C1's case: the doctest's app.run() with the arguments echo hello has
\* returned and the last spawned process is Process(['echo', 'hello']).
C1_Witness ==
    /\ subprocess = "null"
    /\ call.op = "run"
    /\ ~call.raised
    /\ last_spwaned # None
    /\ heap[last_spwaned].command = <<"echo", "hello">>

\* C2: at most one child of the server is running at any time.
C2_AtMostOneLiveChild == Cardinality(LiveChildren) <= 1

\* C10: get_last_spawned() returns what the most recent spawn returned (None
\* before any spawn), a reference to a Process that holds that call's
\* command; a spawn that returns has created a new Process, has returned it,
\* and has left every earlier Process as it was; get_last_spawned() changes
\* nothing.
C10_TracksLastSpawned ==
    /\ [](/\ call.op = "get_last_spawned" => call.ret = returned
          /\ heap = <<>> => returned = None
          /\ returned # None => returned \in 1..Len(heap))
    /\ [][/\ (Spawn /\ ~call'.raised) =>
               /\ call'.ret = Len(heap) + 1
               /\ Len(heap') = Len(heap) + 1
               /\ heap'[call'.ret].command = call'.arg
               /\ get_last_spawned(last_spwaned') = call'.ret
               /\ \A i \in 1..Len(heap) : heap'[i] = heap[i]
          /\ GetLastSpawned =>
               /\ call'.ret = returned
               /\ UNCHANGED <<heap, last_spwaned, children, returned>>]_vars

\* C10's case: after two spawns with different commands, get_last_spawned()
\* has returned the second Process, and the first still holds its command.
C10_Witness ==
    /\ call.op = "get_last_spawned"
    /\ Len(heap) = 2
    /\ call.ret = 2
    /\ heap[1].command = <<"echo", "hello">>
    /\ heap[2].command = <<"hello">>

----------------------------------------------------------------------------
(* Claims about servers and clients in directories (SpecSys).              *)

\* A client is a process started as `command-server --invoke`; every other
\* process is a server.
IsClient(pr) == ArgsGet(pr.argv) = <<"--invoke">>

\* Directory d is c or an ancestor of c.
IsAncestor(d, c) == Len(d) <= Len(c) /\ SubSeq(c, 1, Len(d)) = d

\* The live servers: those that have run their command on startup and have
\* not terminated.
LiveServers == {i \in 1..Len(procs) : ~IsClient(procs[i]) /\ procs[i].pc = "ran"}

\* The live servers nearest to directory c among those at c or above it.
Nearest(c) ==
    {i \in LiveServers :
        /\ IsAncestor(procs[i].cwd, c)
        /\ \A j \in LiveServers :
              IsAncestor(procs[j].cwd, c) => Len(procs[j].cwd) <= Len(procs[i].cwd)}

\* The clients whose invocation is carried out by the step: they leave "main".
Invoking ==
    {c \in 1..Len(procs) :
        IsClient(procs[c]) /\ procs[c].pc = "main" /\ procs'[c].pc # "main"}

\* C3: a live server spawns its command exactly once for every invocation
\* that arrives at it and never otherwise, and when it does, the child it
\* had spawned before is no longer running.
C3_SpawnsOncePerInvocation ==
    [][\A s \in LiveServers :
          LET arrivals == {c \in Invoking : s \in Nearest(procs[c].cwd)}
              before == procs[s].heap[procs[s].last_spwaned]
          IN  /\ Len(procs'[s].heap) = Len(procs[s].heap) + Cardinality(arrivals)
              /\ arrivals # {} => children'[get_pid(before)] = "exited"]_vars

\* C4: when a client is invoked in directory C and D is the nearest directory
\* at or above C with a live server, that server runs its command again: its
\* last spawned process is a new one, running the server's command.
C4_NearestServerRunsAgain ==
    [][\A c \in Invoking : \A s \in Nearest(procs[c].cwd) :
          /\ procs'[s].last_spwaned # procs[s].last_spwaned
          /\ procs'[s].heap[procs'[s].last_spwaned].command = ArgsGet(procs[s].argv)]_vars

\* C5: no two live servers are anchored to the same directory.
C5_OneServerPerDirectory ==
    \A i \in LiveServers : \A j \in LiveServers :
        procs[i].cwd = procs[j].cwd => i = j

\* C6: a client that has ended has printed exactly one line and has not
\* crashed; it has exited with 0 exactly when the line is `ok`.
C6_ClientOutcome ==
    \A c \in 1..Len(procs) :
        (IsClient(procs[c]) /\ procs[c].pc = "exited") =>
            /\ ~procs[c].traceback
            /\ Len(procs[c].stdout) = 1
            /\ procs[c].exit = 0 <=> procs[c].stdout = <<"ok">>

----------------------------------------------------------------------------
(* Claims about ZeroApp (SpecZero).                                        *)

\* The names of the events collected, in order.
EventNames == [i \in 1..Len(events) |-> events[i][1]]

\* How many events of a name were collected.
Count(name) == Cardinality({i \in 1..Len(events) : events[i][1] = name})

\* ZeroApp.run_in_test_mode has ended: app.run() returned, exited or raised.
ZeroAppEnded == driver = "ZeroApp" /\ zero_pc \in {"returned", "exit", "raised"}

\* C7: ZeroApp called with ['build'] has, when it ends, emitted
\* DOCTEST_MODULE 'zero', DOCTEST_MODULE 'command-server' and TEST_RUN, in
\* that order and each once, with both tests added to the suite, and no LINE.
C7_BuildRunsAllTests ==
    (ZeroAppEnded /\ ArgsGet(zero_argv) = <<"build">>) =>
        /\ Len(events) >= 3
        /\ SubSeq(EventNames, 1, 3) = <<"DOCTEST_MODULE", "DOCTEST_MODULE", "TEST_RUN">>
        /\ events[1][2] = "zero"
        /\ events[2][2] = "command-server"
        /\ Count("DOCTEST_MODULE") = 2
        /\ Count("TEST_RUN") = 1
        /\ Count("LINE") = 0
        /\ suite = 2

\* C8: ZeroApp called with ['build'] has, when it ends, emitted exactly one
\* EXIT, of code 1 and after TEST_RUN, if the test run reports failure, and
\* no EXIT if it reports success.
C8_BuildExitsOnFailure ==
    (ZeroAppEnded /\ ArgsGet(zero_argv) = <<"build">>) =>
        IF run_was_successful
        THEN Count("EXIT") = 0
        ELSE /\ Count("EXIT") = 1
             /\ Count("TEST_RUN") = 1
             /\ Len(events) >= 2
             /\ EventNames[Len(events) - 1] = "TEST_RUN"
             /\ EventNames[Len(events)] = "EXIT"
             /\ events[Len(events)][2] = 1

\* C9: ZeroApp called with any argument list other than ['build'] emits
\* nothing before it runs and then exactly LINE with the usage text followed
\* by EXIT 1; it adds no doctest module and does not run the tests.
C9_UsageWhenNotBuild ==
    (driver = "ZeroApp" /\ ArgsGet(zero_argv) # <<"build">>) =>
        /\ suite = 0
        /\ todo = <<>>
        /\ IF zero_pc = "run"
           THEN events = <<>>
           ELSE /\ zero_pc = "exit"
                /\ EventNames = <<"LINE", "EXIT">>
                /\ events[1][2] = Usage
                /\ events[2][2] = 1

\* C9's case: ZeroApp called with ['build', 'test'] has printed the usage
\* line and exited.
C9_Witness ==
    /\ driver = "ZeroApp"
    /\ zero_argv = <<"None", "build", "test">>
    /\ zero_pc = "exit"
    /\ Len(events) = 2

=============================================================================
